---- MODULE Spec2Model ----
(***************************************************************************)
(* Marginal-maximum-likelihood estimators of GIRTH                         *)
(*   src/girth/mml_full_methods.py      onepl_full, twopl_full, pcm_mml    *)
(*   src/girth/mml_methods.py           _mml_abstract, onepl_mml,          *)
(*                                      twopl_mml, grm_mml                 *)
(*   src/girth/mml_separate_methods.py  onepl_separate, twopl_separate     *)
(*                                                                         *)
(* Real numbers are fixed-point integers in units of 1e-4 (1.0 is 10000,   *)
(* the tolerance 1e-3 is 10).  The partial integral is kept symbolically:  *)
(* a quotient of two bags of factors, one factor per (item, parameter      *)
(* values) plus one for the prior density, so that a multiplication and a  *)
(* division cancel exactly when they use the same factor and only then.    *)
(***************************************************************************)
EXTENDS Integers, Sequences, FiniteSets, Bags, TLC

\* ------------------------------------------------------------------ bounds
NItems == 2
MaxIteration == 2
MaxTrials == 2
MaxCats == 3
NParticipants == 3

\* -------------------------------------------------------- program constants
\* np.abs(...).max() < 1e-3
Tol == 10
\* np.nan
NaN == 999999999
\* np.full((item_counts.sum(),), -10000.0)
NegSentinel == -100000000
\* betas_roll[cumulative_item_counts-1] = 10000
PosSentinel == 100000000

Items == 0 .. (NItems - 1)

Abs(x) == IF x < 0 THEN -x ELSE x

RECURSIVE SetMax(_)
SetMax(S) ==
  LET x == CHOOSE y \in S : TRUE
  IN  IF S = {x} THEN x
      ELSE LET m == SetMax(S \ {x}) IN IF x > m THEN x ELSE m

\* a[lo:hi] of a 0-indexed array, as a sequence
Slice(f, lo, hi) == [j \in 1 .. (hi - lo) |-> f[lo + j - 1]]

\* ------------------------------------------------ symbolic partial integral
PriorFactor == [item |-> -1, key |-> <<>>]

Ones == [num |-> EmptyBag, den |-> EmptyBag]

\* partial_int *= f
Times(P, f) ==
  IF BagIn(f, P.den)
  THEN [P EXCEPT !.den = @ (-) SetToBag({f})]
  ELSE [P EXCEPT !.num = @ (+) SetToBag({f})]

\* partial_int /= f
Over(P, f) ==
  IF BagIn(f, P.num)
  THEN [P EXCEPT !.num = @ (-) SetToBag({f})]
  ELSE [P EXCEPT !.den = @ (+) SetToBag({f})]

RECURSIVE TimesAll(_, _)
TimesAll(P, F) ==
  IF F = {} THEN P
  ELSE LET f == CHOOSE g \in F : TRUE IN TimesAll(Times(P, f), F \ {f})

\* The product of the factors in F, each once
ProductOf(F) == [num |-> SetToBag(F), den |-> EmptyBag]

\* ------------------------------------------------------------ array helpers
\* np.linspace(-1, 1, t)[j]
Linspace(t, j) == IF t = 1 THEN -10000 ELSE -10000 + (20000 * j) \div (t - 1)

\* a[lo:hi] = seq
AssignSlice(f, lo, hi, seq) ==
  [i \in DOMAIN f |-> IF lo <= i /\ i < hi THEN seq[i - lo + 1] ELSE f[i]]

\* Only a[lo] = v
FillSlice_First(f, lo, hi, v) == [i \in DOMAIN f |-> IF i = lo THEN v ELSE f[i]]

\* a[lo:hi] = v
FillSlice(f, lo, hi, v) ==
  [i \in DOMAIN f |-> IF lo <= i /\ i < hi THEN v ELSE f[i]]

\* np.roll(f, shift) of an array of length n
Roll(f, shift, n) == [i \in 0 .. (n - 1) |-> f[(i - shift) % n]]

RECURSIVE SumTo(_, _)
SumTo(c, i) == IF i < 0 THEN 0 ELSE c[i] + SumTo(c, i - 1)

\* item_counts.cumsum()
CumSum(c) == [i \in Items |-> SumTo(c, i)]

\* start_indices = np.roll(cumulative_item_counts, 1); start_indices[0] = 0
StartIndices(c) == [Roll(CumSum(c), 1, NItems) EXCEPT ![0] = 0]

\* item_counts.max()
MaxCount(c) == SetMax({c[i] : i \in Items})

\* ------------------------------------------------------------------- state
VARIABLES
  alg,                     \* the estimator that is running
  max_iteration,           \* options['max_iteration'] / max_iter
  item_counts,             \* categories per item (polytomous estimators)
  pc,                      \* position in the estimator
  iteration,               \* index the outer for loop is at
  item_ndx,                \* index the inner for loop is at
  discrimination,
  difficulty,
  betas,
  betas_roll,
  previous_discrimination,
  previous_difficulty,
  previous_betas,
  previous_betas_roll,
  new_betas,               \* pcm_mml's per item trial thresholds
  partial_int,
  trials,                  \* objective evaluations of the running optimizer call
  best,                    \* the point the running optimizer call will return
  result,                  \* the returned tuple
  alpha,                   \* onepl_full's variable alpha (0: None)
  best_alpha,              \* the value onepl_full's outer search will return
  options,                 \* quadrature_n and quadrature_bounds of the options
  theta,                   \* the grid the arrays are sampled on: its order and bounds
  quad,                    \* order and bounds of the fixed_quad calls of the last evaluation
  calls,                   \* evaluations of the outer objective (alpha_min_func, min_func)
  dataset,                 \* items x participants matrix of 0/1
  unique_sets,
  counts,
  the_sign,
  origin,                  \* history: the item whose update wrote each threshold slot
  pass_start,              \* history: every item's parameters when the pass began
  pass_result,             \* history: the parameters each item's update left, this pass
  processed,               \* history: the items updated in this pass, in order
  passes,                  \* history: passes over the items completed
  supplied,                \* history: the alpha onepl_full was called with (0: None)
  last_trial,              \* history: the last point the objective was evaluated at
  result_origin,           \* history: origin, trimmed as the returned thresholds are
  exit_by,                 \* history: how the outer loop ended
  produced,                \* history: the difficulties each outer trial value left
  rebuilds                 \* history: full rebuilds of partial_int made

vars == <<alg, max_iteration, item_counts, pc, iteration, item_ndx,
          discrimination, difficulty, betas, betas_roll,
          previous_discrimination, previous_difficulty, previous_betas,
          previous_betas_roll, new_betas, partial_int, trials, best, result,
          alpha, best_alpha, supplied, calls, dataset, unique_sets, counts, the_sign, origin,
          pass_start, pass_result, processed, passes, last_trial,
          result_origin, exit_by, options, theta, quad, produced,
          rebuilds>>

Dichotomous == {"twopl_full", "twopl_mml"}
OnePl == {"onepl_full", "onepl_mml"}
Binary == Dichotomous \cup OnePl
Polytomous == {"pcm_mml", "grm_mml"}
Estimators == Dichotomous \cup Polytomous

NoPoint == [a |-> 0, b |-> <<>>]

\* Category counts the response conditioning can report: every item has between
\* 2 and MaxCats categories, and neighbouring items differ.
CountProfiles ==
  { [i \in Items |-> 2 + ((i + s) % (MaxCats - 1))] : s \in 0 .. (MaxCats - 2) }

\* Thresholds an item's update estimates
FreeCount(k) == IF alg \in Polytomous THEN item_counts[k] - 1 ELSE 1

Total == SumTo(item_counts, NItems - 1)
start_indices == StartIndices(item_counts)
cumulative_item_counts == CumSum(item_counts)

\* --------------------------------------------------------- initial arrays
\* pcm_mml: betas = np.full((n_items, item_counts.max()), np.nan);
\* betas[:, 0] = 0; betas[ndx, 1:item_counts[ndx]] = np.linspace(-1, 1, ...)
InitBetasPcm(c) ==
  [i \in Items |->
     LET full == [j \in 0 .. (MaxCount(c) - 1) |-> NaN]
         ref  == [full EXCEPT ![0] = 0]
     IN  AssignSlice(ref, 1, c[i],
                     [j \in 1 .. (c[i] - 1) |-> Linspace(c[i] - 1, j - 1)])]

\* grm_mml: betas[start_ndx:end_ndx] = np.linspace(...) for the items up to ndx
RECURSIVE SpreadBetas(_, _, _)
SpreadBetas(b, c, ndx) ==
  IF ndx < 0 THEN b
  ELSE LET end_ndx   == CumSum(c)[ndx]
           start_ndx == StartIndices(c)[ndx] + 1
       IN  AssignSlice(SpreadBetas(b, c, ndx - 1), start_ndx, end_ndx,
                       [j \in 1 .. (c[ndx] - 1) |-> Linspace(c[ndx] - 1, j - 1)])

\* grm_mml: betas = np.full((item_counts.sum(),), -10000.0), then the spread
InitBetasGrm(c) ==
  SpreadBetas([x \in 0 .. (SumTo(c, NItems - 1) - 1) |-> NegSentinel], c, NItems - 1)

\* The roll alone, the upper sentinels not set
InitBetasRoll_Rolled(c) == Roll(InitBetasGrm(c), -1, SumTo(c, NItems - 1))

\* grm_mml: betas_roll = np.roll(betas, -1); betas_roll[cumulative_item_counts-1] = 10000
InitBetasRoll(c) ==
  LET n      == SumTo(c, NItems - 1)
      rolled == Roll(InitBetasGrm(c), -1, n)
  IN  [x \in 0 .. (n - 1) |->
         IF \E i \in Items : x = CumSum(c)[i] - 1 THEN PosSentinel ELSE rolled[x]]

\* The item whose values the initialisation put in each slot (-1: none)
InitOrigin(g, c) ==
  CASE g = "pcm_mml" ->
         [i \in Items |-> [j \in 0 .. (MaxCount(c) - 1) |-> IF j < c[i] THEN i ELSE -1]]
    [] g = "grm_mml" ->
         [x \in 0 .. (SumTo(c, NItems - 1) - 1) |->
            IF \E i \in Items : StartIndices(c)[i] < x /\ x < CumSum(c)[i]
            THEN CHOOSE i \in Items : StartIndices(c)[i] < x /\ x < CumSum(c)[i]
            ELSE -1]
    [] OTHER -> <<>>

\* ---------------------------------------------------- views of the arrays
\* Item i's parameters in the given arrays: its discrimination and its thresholds
ParamsIn(dis, dif, bet, i) ==
  CASE alg \in Binary      -> [a |-> dis[i], b |-> <<dif[i]>>]
    [] alg = "pcm_mml"     -> [a |-> dis[i], b |-> Slice(bet[i], 1, item_counts[i])]
    [] alg = "grm_mml"     -> [a |-> dis[start_indices[i]],
                               b |-> Slice(bet, start_indices[i] + 1,
                                           cumulative_item_counts[i])]

Params(i) == ParamsIn(discrimination, difficulty, betas, i)

AllParams == [i \in Items |-> Params(i)]

\* ------------------------------------- likelihood contributions (symbolic)
\* _compute_partial_integral(theta, difficulty[i, None], discrimination[i, None],
\*                           the_sign[i, None])
ComputePartialIntegral(dif, dis, i) == [item |-> i, key |-> <<dis[i], dif[i]>>]

\* _credit_partial_integral(theta, row, a, responses[i]) with row of length
\* item_counts[i] or longer
CreditPartialIntegral(row, a, i) ==
  [item |-> i, key |-> <<a>> \o Slice(row, 0, item_counts[i])]

\* _graded_partial_integral(theta, bet, rol, dis, responses[i][None, :], ones)
GradedPartialIntegral(bet, rol, dis, i) ==
  LET s == start_indices[i]
      e == cumulative_item_counts[i]
  IN  [item |-> i, key |-> Slice(bet, s, e) \o Slice(rol, s, e) \o Slice(dis, s, e)]

\* Item i's contribution under the parameter values the arrays hold now
CurrentFactor(i) ==
  CASE alg \in Binary      -> ComputePartialIntegral(difficulty, discrimination, i)
    [] alg = "pcm_mml"     -> CreditPartialIntegral(betas[i], discrimination[i], i)
    [] alg = "grm_mml"     -> GradedPartialIntegral(betas, betas_roll, discrimination, i)

\* ------------------------------------------------------- quadrature grid
\* Estimators that take quadrature_n and quadrature_bounds from the options
FullMethods == {"onepl_full", "twopl_full", "pcm_mml"}

\* Values of options['quadrature_n'] and options['quadrature_bounds'] a caller
\* can set; the other estimators take no options
QuadratureOptions ==
  { [quadrature_n |-> 61, quadrature_bounds |-> <<-50000, 50000>>],
    [quadrature_n |-> 41, quadrature_bounds |-> <<-40000, 40000>>] }

\* _get_quadrature_points(n, start, stop): the nodes of order n over [start, stop]
GetQuadraturePoints(n, start, stop) == [n |-> n, start |-> start, stop |-> stop]

\* integrate.fixed_quad(lambda x: values, a, b, n=n): the weighted sum of values
\* taken to be sampled at the nodes of order n over [a, b]
FixedQuad(a, b, n) == [n |-> n, start |-> a, stop |-> b]

\* theta = _get_quadrature_points(quad_n, quad_start, quad_stop) of the full
\* methods, theta = _get_quadrature_points(61, -5, 5) of the others
Grid(g, o) ==
  IF g \in FullMethods
  THEN GetQuadraturePoints(o.quadrature_n, o.quadrature_bounds[1], o.quadrature_bounds[2])
  ELSE GetQuadraturePoints(61, -50000, 50000)

\* Every call with the order and bounds of the defaults, whatever the options
ObjectiveQuadCalls_Defaults(g) == { FixedQuad(-50000, 50000, 61) }

\* The fixed_quad calls on a pre-evaluated array that one evaluation of the
\* estimator's objective makes
ObjectiveQuadCalls(g) ==
  CASE g \in FullMethods ->
         { FixedQuad(options.quadrature_bounds[1], options.quadrature_bounds[2],
                     options.quadrature_n) }
    [] g \in {"onepl_mml", "twopl_mml"} ->
         \* min_zero_local of _mml_abstract, then the estimator's own
         { FixedQuad(-50000, 50000, 61), FixedQuad(-50000, 50000, 61) }
    [] g = "grm_mml" -> { FixedQuad(-50000, 50000, 61) }

InitGrid(g) ==
  /\ options \in (IF g \in FullMethods THEN QuadratureOptions ELSE {<<>>})
  /\ theta = Grid(g, options)
  /\ quad = {}

\* ------------------------------------------------------------------- Init
InitArrays(g, c) ==
  /\ discrimination =
       IF g = "grm_mml" THEN [x \in 0 .. (SumTo(c, NItems - 1) - 1) |-> 10000]
       ELSE [i \in Items |-> 10000]
  /\ difficulty = IF g \in Binary THEN [i \in Items |-> 0] ELSE <<>>
  /\ betas = CASE g = "pcm_mml" -> InitBetasPcm(c)
               [] g = "grm_mml" -> InitBetasGrm(c)
               [] OTHER -> <<>>
  /\ betas_roll = IF g = "grm_mml" THEN InitBetasRoll(c) ELSE <<>>
  /\ origin = InitOrigin(g, c)
  /\ partial_int = Ones

InitRest ==
  /\ iteration = 0
  /\ item_ndx = 0
  /\ previous_discrimination = <<>>
  /\ previous_difficulty = <<>>
  /\ previous_betas = <<>>
  /\ previous_betas_roll = <<>>
  /\ new_betas = <<>>
  /\ trials = 0
  /\ best = NoPoint
  /\ last_trial = NoPoint
  /\ result = <<>>
  /\ result_origin = <<>>
  /\ pass_start = <<>>
  /\ pass_result = [i \in Items |-> NoPoint]
  /\ processed = <<>>
  /\ passes = 0
  /\ rebuilds = 0
  /\ exit_by = "none"

NoData ==
  /\ dataset = <<>>
  /\ unique_sets = <<>>
  /\ counts = <<>>
  /\ the_sign = <<>>

Init ==
  /\ alg \in Estimators
  /\ max_iteration \in {1, MaxIteration}
  /\ item_counts \in IF alg \in Polytomous THEN CountProfiles ELSE {<<>>}
  /\ InitArrays(alg, item_counts)
  /\ InitRest
  /\ pc = "for"
  /\ alpha = 0
  /\ best_alpha = 0
  /\ produced = <<>>
  /\ InitGrid(alg)
  /\ supplied = 0
  /\ calls = 0
  /\ NoData

\* ------------------------------------------------------ optimizer inputs
\* Boxes wider than the code's
Bounds_Wide(g) ==
  [a |-> <<2000, 70000>>, b |-> <<NegSentinel + 1, PosSentinel - 1>>]

\* The bound boxes the optimizers are given: discrimination, then thresholds.
\* twopl_full: fmin_slsqp(..., bounds=[(0.25, 4), (-4, 4)])
\* pcm_mml:    fmin_slsqp(..., bounds=[(.25, 4)] + [(-6, 6)] * (item_length - 1))
\* twopl_mml:  fminbound(min_func_local, 0.25, 6), and fminbound(min_zero_local,
\*             -6, 6) in _mml_abstract for the difficulty
\* grm_mml:    fminbound(_local_min_func, 0.2, 5.0); the thresholds come from
\*             _solve_integral_equations and lie between the two sentinels
Bounds(g) ==
  CASE g = "twopl_full" -> [a |-> <<2500, 40000>>, b |-> <<-40000, 40000>>]
    [] g = "pcm_mml"    -> [a |-> <<2500, 40000>>, b |-> <<-60000, 60000>>]
    [] g = "twopl_mml"  -> [a |-> <<2500, 60000>>, b |-> <<-60000, 60000>>]
    [] g = "grm_mml"    -> [a |-> <<2000, 50000>>, b |-> <<NegSentinel + 1, PosSentinel - 1>>]

InBox(box, p) ==
  /\ box.a[1] <= p.a /\ p.a <= box.a[2]
  /\ \A j \in DOMAIN p.b : box.b[1] <= p.b[j] /\ p.b[j] <= box.b[2]

\* Points of parameter space the optimizers are tried on: a discrimination and
\* the first threshold that goes with it (the further thresholds follow 0.1 apart).
\* From the start values 1 and 0 the first moves the discrimination by less than
\* the tolerance and the difficulty by much more, the second moves the
\* discrimination by exactly the tolerance, the third lies on two lower bounds and
\* the fourth outside every box.
SamplePoints ==
  { [a |-> 10005, b |-> 40000], [a |-> 10010, b |-> 0],
    [a |-> 2500, b |-> -40000], [a |-> 70000, b |-> 70000] }

ThresholdVector(b, t) == [j \in 1 .. t |-> b + 1000 * (j - 1)]

\* initial_guess = np.concatenate((discrimination[k, None], difficulty[k, None]))
\* initial_guess = np.concatenate(([discrimination[k]], betas[k, 1:item_length]))
InitialGuess(k) == Params(k)

\* The points a call of the optimizer for item k may evaluate its objective at
Candidates(k) ==
  { p \in { [a |-> s.a, b |-> ThresholdVector(s.b, FreeCount(k))] : s \in SamplePoints }
            \cup (IF alg \in {"twopl_full", "pcm_mml"} THEN {InitialGuess(k)} ELSE {}) :
      InBox(Bounds(alg), p) }

\* ------------------------------------------------------------ loop guards
\* The loop guard off by one: one pass more than the cap allows
LoopContinues_OffByOne == iteration <= max_iteration

\* The tolerance test with <= for <
ToleranceMet_Inclusive ==
  SetMax({ Abs(discrimination[x] - previous_discrimination[x]) :
             x \in DOMAIN discrimination }) <= Tol

\* for iteration in range(options['max_iteration'])
LoopContinues == iteration < max_iteration

\* np.abs(discrimination - previous_discrimination).max() < 1e-3
ToleranceMet ==
  SetMax({ Abs(discrimination[x] - previous_discrimination[x]) :
             x \in DOMAIN discrimination }) < Tol

\* ------------------------------------------------------- the factor removed
\* Item k's contribution under the parameter values p, from the layout of the
\* arrays: the reference threshold 0 of pcm_mml, the two sentinels of grm_mml
FactorOf(k, p) ==
  CASE alg \in Binary      -> [item |-> k, key |-> <<p.a, p.b[1]>>]
    [] alg = "pcm_mml"     -> [item |-> k, key |-> <<p.a, 0>> \o p.b]
    [] alg = "grm_mml"     -> [item |-> k,
                               key |-> (<<NegSentinel>> \o p.b) \o (p.b \o <<PosSentinel>>)
                                       \o [x \in 1 .. (Len(p.b) + 1) |-> p.a]]

\* The factor of the neighbouring item divided out instead
RemoveFactor_Neighbour(k) == CurrentFactor((k + 1) % NItems)

\* Jacobi: the contribution under the values the pass began with multiplied back
ReinsertFactor_Jacobi(k) == FactorOf(k, pass_start[k])

\* twopl_full, twopl_mml: the contribution under the arrays' values;
\* pcm_mml, grm_mml: under the snapshot taken when the pass began
RemoveFactor(k) ==
  CASE alg \in Binary      -> ComputePartialIntegral(difficulty, discrimination, k)
    [] alg = "pcm_mml"     -> CreditPartialIntegral(previous_betas[k],
                                                    previous_discrimination[k], k)
    [] alg = "grm_mml"     -> GradedPartialIntegral(previous_betas, previous_betas_roll,
                                                    previous_discrimination, k)

\* The contribution multiplied back: under the arrays' values after the update
ReinsertFactor(k) == CurrentFactor(k)

\* The full product without the prior density
FullProduct_Unseeded == ProductOf({ CurrentFactor(i) : i \in Items })

\* The full product, seeded with the prior density
FullProduct ==
  IF alg = "pcm_mml"
  THEN \* partial_int *= 0.0; partial_int += distribution[None, :]; then one
       \* partial_int *= _credit_partial_integral(...) per item
       TimesAll(Times(Ones, PriorFactor), { CurrentFactor(i) : i \in Items })
  ELSE \* _compute_partial_integral(theta, difficulty, discrimination, the_sign)
       \* times distribution; _graded_partial_integral(..., responses, distribution)
       ProductOf({PriorFactor} \cup { CurrentFactor(i) : i \in Items })

\* ---------------------------------------------------------------- actions
inputVars == <<alg, max_iteration, item_counts, alpha, best_alpha, supplied,
               options, theta, produced>>
dataVars == <<dataset, unique_sets, counts, the_sign>>
paramVars == <<discrimination, difficulty, betas, betas_roll, origin>>
snapVars == <<previous_discrimination, previous_difficulty, previous_betas,
              previous_betas_roll>>
callVars == <<trials, best, last_trial>>
passVars == <<pass_start, pass_result, processed>>
endVars == <<result, result_origin, exit_by>>

\* The outer for statement yields the next index: the snapshots are taken.
\*   previous_discrimination = discrimination.copy()
\*   previous_betas = betas.copy(); previous_betas_roll = betas_roll.copy()
BeginIteration ==
  /\ alg \in Estimators
  /\ pc = "for"
  /\ LoopContinues
  /\ previous_discrimination' = discrimination
  /\ previous_betas' = IF alg \in Polytomous THEN betas ELSE previous_betas
  /\ previous_betas_roll' = IF alg = "grm_mml" THEN betas_roll ELSE previous_betas_roll
  /\ pass_start' = AllParams
  /\ pass_result' = [i \in Items |-> NoPoint]
  /\ processed' = <<>>
  /\ pc' = "rebuild"
  /\ UNCHANGED <<inputVars, dataVars, paramVars, callVars, endVars, iteration,
                 item_ndx, previous_difficulty, new_betas, partial_int, calls, rebuilds, quad, passes>>

\* The outer for statement is exhausted: the loop ends without a break.
LoopExhausted ==
  /\ alg \in Estimators
  /\ pc = "for"
  /\ ~LoopContinues
  /\ exit_by' = "cap"
  /\ pc' = "return"
  /\ UNCHANGED <<inputVars, dataVars, paramVars, snapVars, callVars, passVars,
                 result, result_origin, iteration, item_ndx, new_betas,
                 partial_int, calls, rebuilds, quad, passes>>

\* Quadrature evaluation for values that do not change: the full product.
Rebuild ==
  /\ alg \in Estimators
  /\ pc = "rebuild"
  /\ partial_int' = FullProduct
  /\ item_ndx' = 0
  /\ rebuilds' = rebuilds + 1
  /\ pc' = "remove"
  /\ UNCHANGED <<inputVars, dataVars, paramVars, snapVars, callVars, passVars,
                 endVars, iteration, new_betas, calls, quad, passes>>

\* The inner for statement is at item_ndx: partial_int /= local_int (old_values).
\* pcm_mml first makes new_betas = np.zeros((item_length)).
Remove ==
  /\ alg \in Estimators
  /\ pc = "remove"
  /\ partial_int' = Over(partial_int, RemoveFactor(item_ndx))
  /\ new_betas' = IF alg = "pcm_mml"
                  THEN [j \in 0 .. (item_counts[item_ndx] - 1) |-> 0]
                  ELSE new_betas
  /\ trials' = 0
  /\ best' = NoPoint
  /\ last_trial' = NoPoint
  /\ pc' = "optimize"
  /\ UNCHANGED <<inputVars, dataVars, paramVars, snapVars, passVars, endVars,
                 iteration, item_ndx, calls, rebuilds, quad, passes>>

\* What every evaluation of a per item objective does to the optimizer call's
\* own state: the point is the last one tried, and is or is not the best so far.
Evaluated(p) ==
  /\ pc = "optimize"
  /\ trials < MaxTrials
  /\ p \in Candidates(item_ndx)
  /\ trials' = trials + 1
  /\ last_trial' = p
  /\ best' \in (IF trials = 0 THEN {p} ELSE {best, p})
  /\ quad' = ObjectiveQuadCalls(alg)
  /\ UNCHANGED <<inputVars, dataVars, snapVars, passVars, endVars, pc, iteration,
                 item_ndx, partial_int, calls, rebuilds, passes>>

\* twopl_full.min_func_local(estimate):
\*   discrimination[item_ndx] = estimate[0]; difficulty[item_ndx] = estimate[1]
Trial_twopl_full(p) ==
  /\ alg = "twopl_full"
  /\ Evaluated(p)
  /\ discrimination' = [discrimination EXCEPT ![item_ndx] = p.a]
  /\ difficulty' = [difficulty EXCEPT ![item_ndx] = p.b[1]]
  /\ UNCHANGED <<betas, betas_roll, origin, new_betas>>

\* twopl_mml.min_func_local(estimate): discrimination[ndx] = estimate, and
\* _mml_abstract stores the difficulty its own bounded search returns
Trial_twopl_mml(p) ==
  /\ alg = "twopl_mml"
  /\ Evaluated(p)
  /\ discrimination' = [discrimination EXCEPT ![item_ndx] = p.a]
  /\ difficulty' = [difficulty EXCEPT ![item_ndx] = p.b[1]]
  /\ UNCHANGED <<betas, betas_roll, origin, new_betas>>

\* grm_mml._local_min_func(estimate):
\*   betas[start_ndx+1:end_ndx] = new_betas
\*   betas_roll[start_ndx:end_ndx-1] = new_betas
\*   discrimination[start_ndx:end_ndx] = estimate
Trial_grm_mml(p) ==
  /\ alg = "grm_mml"
  /\ Evaluated(p)
  /\ LET start_ndx == start_indices[item_ndx]
         end_ndx   == cumulative_item_counts[item_ndx]
     IN  /\ betas' = AssignSlice(betas, start_ndx + 1, end_ndx, p.b)
         /\ betas_roll' = AssignSlice(betas_roll, start_ndx, end_ndx - 1, p.b)
         /\ discrimination' = FillSlice(discrimination, start_ndx, end_ndx, p.a)
         /\ origin' = FillSlice(origin, start_ndx + 1, end_ndx, item_ndx)
  /\ UNCHANGED <<difficulty, new_betas>>

\* pcm_mml._local_min_func(estimate): new_betas[1:] = estimate[1:]
Trial_pcm_mml(p) ==
  /\ alg = "pcm_mml"
  /\ Evaluated(p)
  /\ new_betas' = AssignSlice(new_betas, 1, item_counts[item_ndx], p.b)
  /\ UNCHANGED paramVars

\* The returned thresholds stored from slot 0 on
StoreReturned_FromZero(otpt) ==
  /\ discrimination' = [discrimination EXCEPT ![item_ndx] = otpt.a]
  /\ betas' = [betas EXCEPT ![item_ndx] =
                 AssignSlice(@, 0, item_counts[item_ndx] - 1, otpt.b)]
  /\ origin' = [origin EXCEPT ![item_ndx] =
                  FillSlice(@, 1, item_counts[item_ndx], item_ndx)]

\* What pcm_mml stores of the point fmin_slsqp returned:
\*   discrimination[item_ndx] = otpt[0]; betas[item_ndx, 1:item_length] = otpt[1:]
StoreReturned(otpt) ==
  /\ discrimination' = [discrimination EXCEPT ![item_ndx] = otpt.a]
  /\ betas' = [betas EXCEPT ![item_ndx] =
                 AssignSlice(@, 1, item_counts[item_ndx], otpt.b)]
  /\ origin' = [origin EXCEPT ![item_ndx] =
                  FillSlice(@, 1, item_counts[item_ndx], item_ndx)]

\* The optimizer call returns. twopl_full, twopl_mml and grm_mml drop the value.
OptimizerReturns ==
  /\ alg \in Estimators
  /\ pc = "optimize"
  /\ trials >= 1
  /\ IF alg = "pcm_mml"
     THEN StoreReturned(best) /\ UNCHANGED <<difficulty, betas_roll>>
     ELSE UNCHANGED paramVars
  /\ pc' = "reinsert"
  /\ UNCHANGED <<inputVars, dataVars, snapVars, callVars, passVars, endVars,
                 iteration, item_ndx, new_betas, partial_int, calls, rebuilds, quad, passes>>

\* partial_int *= estimate_int (new_values); the inner for statement moves on.
Reinsert ==
  /\ alg \in Estimators
  /\ pc = "reinsert"
  /\ partial_int' = Times(partial_int, ReinsertFactor(item_ndx))
  /\ pass_result' = [pass_result EXCEPT ![item_ndx] = Params(item_ndx)]
  /\ processed' = Append(processed, item_ndx)
  /\ trials' = 0
  /\ best' = NoPoint
  /\ last_trial' = NoPoint
  /\ IF item_ndx + 1 < NItems
     THEN item_ndx' = item_ndx + 1 /\ pc' = "remove"
     ELSE item_ndx' = item_ndx /\ pc' = "check"
  /\ UNCHANGED <<inputVars, dataVars, paramVars, snapVars, endVars,
                 pass_start, iteration, new_betas, calls, rebuilds, quad, passes>>

\* if np.abs(discrimination - previous_discrimination).max() < 1e-3: break
Check ==
  /\ alg \in Estimators
  /\ pc = "check"
  /\ passes' = passes + 1
  /\ IF ToleranceMet
     THEN pc' = "return" /\ exit_by' = "tolerance" /\ iteration' = iteration
     ELSE pc' = "for" /\ exit_by' = exit_by /\ iteration' = iteration + 1
  /\ UNCHANGED <<inputVars, dataVars, paramVars, snapVars, callVars, passVars,
                 result, result_origin, item_ndx, new_betas, partial_int, calls, rebuilds, quad>>

\* ------------------------------------------------------------- the return
\* The copy one slot to the left: betas[start_ndx:end_ndx-1]
TrimBetas_Shifted(bet, fill) ==
  [ndx \in Items |->
     LET start_ndx == start_indices[ndx]
         end_ndx   == cumulative_item_counts[ndx]
         row       == [j \in 0 .. (MaxCount(item_counts) - 2) |-> fill]
     IN  AssignSlice(row, 0, end_ndx - start_ndx - 1, Slice(bet, start_ndx, end_ndx - 1))]

\* grm_mml: output_betas = np.full((n_items, item_counts.max()-1), np.nan)
\*   for ndx, (start_ndx, end_ndx) in enumerate(zip(start_indices, cumulative_item_counts)):
\*       output_betas[ndx, :end_ndx-start_ndx-1] = betas[start_ndx+1:end_ndx]
TrimBetas(bet, fill) ==
  [ndx \in Items |->
     LET start_ndx == start_indices[ndx]
         end_ndx   == cumulative_item_counts[ndx]
         row       == [j \in 0 .. (MaxCount(item_counts) - 2) |-> fill]
     IN  AssignSlice(row, 0, end_ndx - start_ndx - 1, Slice(bet, start_ndx + 1, end_ndx))]

\* pcm_mml: betas[:, 1:]
DropFirst(bet) ==
  [ndx \in Items |-> [j \in 0 .. (MaxCount(item_counts) - 2) |-> bet[ndx][j + 1]]]

\* grm_mml: discrimination[start_indices]
AtStarts(dis) == [ndx \in Items |-> dis[start_indices[ndx]]]

\* return discrimination, difficulty
Return ==
  /\ alg \in Estimators
  /\ pc = "return"
  /\ result' =
       CASE alg \in Dichotomous -> <<discrimination, difficulty>>
         [] alg = "pcm_mml"     -> <<discrimination, DropFirst(betas)>>
         [] alg = "grm_mml"     -> <<AtStarts(discrimination), TrimBetas(betas, NaN)>>
  /\ result_origin' =
       CASE alg \in Dichotomous -> <<>>
         [] alg = "pcm_mml"     -> DropFirst(origin)
         [] alg = "grm_mml"     -> TrimBetas(origin, -1)
  /\ pc' = "done"
  /\ UNCHANGED <<inputVars, dataVars, paramVars, snapVars, callVars, passVars,
                 exit_by, iteration, item_ndx, new_betas, partial_int, calls, rebuilds, quad, passes>>

Next ==
  \/ BeginIteration
  \/ LoopExhausted
  \/ Rebuild
  \/ Remove
  \/ \E p \in Candidates(item_ndx) : Trial_twopl_full(p)
  \/ \E p \in Candidates(item_ndx) : Trial_twopl_mml(p)
  \/ \E p \in Candidates(item_ndx) : Trial_grm_mml(p)
  \/ \E p \in Candidates(item_ndx) : Trial_pcm_mml(p)
  \/ OptimizerReturns
  \/ Reinsert
  \/ Check
  \/ Return

Spec == Init /\ [][Next]_vars

\* Every statement of the estimators is followed by the next one: the program is
\* sequential and, each optimizer call returning, never stops before its return.
FairSpec == Spec /\ WF_vars(Next)

\* ============================================================ onepl_full
\* Values of alpha a caller supplies (rasch_full's default 1 among them); 0 is None
SuppliedAlphas == {0, 10000, 15000}

\* fminbound(alpha_min_func, 0.1, 4)
AlphaBounds == <<1000, 40000>>

\* fminbound(min_local_func, -4, 4)
BetaBounds == <<-40000, 40000>>

\* Values the outer search is tried on: two inside its bounds, one outside
AlphaCandidates ==
  { a \in {5000, 20000, 70000} : AlphaBounds[1] <= a /\ a <= AlphaBounds[2] }

\* Values the per item search is tried on: from the start value 0 a move below
\* the tolerance, a move of exactly the tolerance, the lower bound, one outside
BetaCandidates ==
  { b \in {5, 10, -40000, 70000} : BetaBounds[1] <= b /\ b <= BetaBounds[2] }

Init_onepl ==
  /\ alg \in OnePl
  /\ max_iteration \in {1, MaxIteration}
  /\ item_counts = <<>>
  /\ InitArrays(alg, item_counts)
  /\ InitRest
  /\ pc = "start"
  /\ supplied \in SuppliedAlphas
  /\ alpha = supplied
  /\ best_alpha = 0
  /\ produced = <<>>
  /\ InitGrid(alg)
  /\ calls = 0
  /\ NoData

\* Only the first entry written
SharedDiscrimination_First(alpha_estimate) ==
  [discrimination EXCEPT ![0] = alpha_estimate]

\* discrimination[:] = alpha_estimate
SharedDiscrimination(alpha_estimate) == [i \in DOMAIN discrimination |-> alpha_estimate]

\* alpha_min_func starting every evaluation from zero difficulties
AlphaMinFunc_Reset(alpha_estimate) ==
  /\ discrimination' = SharedDiscrimination(alpha_estimate)
  /\ difficulty' = [i \in Items |-> 0]
  /\ calls' = calls + 1
  /\ iteration' = 0
  /\ pc' = "for"
  /\ UNCHANGED <<inputVars, rebuilds, quad,
                 dataVars, betas, betas_roll, origin, snapVars,
                 callVars, passVars, endVars, item_ndx, new_betas, partial_int,
                 passes>>

\* alpha_min_func(alpha_estimate) is entered
AlphaMinFunc(alpha_estimate) ==
  /\ discrimination' = SharedDiscrimination(alpha_estimate)
  /\ calls' = calls + 1
  /\ iteration' = 0
  /\ pc' = "for"
  /\ UNCHANGED <<inputVars, rebuilds, quad,
                 dataVars, difficulty, betas, betas_roll, origin, snapVars,
                 callVars, passVars, endVars, item_ndx, new_betas, partial_int,
                 passes>>

\* else:  # Rasch Solver -- alpha_min_func(alpha)
RaschSolver ==
  /\ alg = "onepl_full"
  /\ pc = "start"
  /\ alpha # 0
  /\ AlphaMinFunc(alpha)

\* if alpha is None: fminbound(alpha_min_func, 0.1, 4) evaluates its objective
OnePlSolverTrial(alpha_estimate) ==
  /\ alg = "onepl_full"
  /\ \/ pc = "start" /\ alpha = 0
     \/ pc = "outer" /\ calls < MaxTrials
  /\ alpha_estimate \in AlphaCandidates \ DOMAIN produced
  /\ AlphaMinFunc(alpha_estimate)

\* for iteration in range(options['max_iteration']):
\*     previous_difficulty = difficulty.copy()
BeginIteration_onepl ==
  /\ alg = "onepl_full"
  /\ pc = "for"
  /\ LoopContinues
  /\ previous_difficulty' = difficulty
  /\ pass_start' = AllParams
  /\ pass_result' = [i \in Items |-> NoPoint]
  /\ processed' = <<>>
  /\ pc' = "rebuild"
  /\ UNCHANGED <<inputVars, dataVars, paramVars, callVars, endVars, iteration,
                 item_ndx, previous_discrimination, previous_betas,
                 previous_betas_roll, new_betas, partial_int, calls, rebuilds, quad, passes>>

\* The inner loop of alpha_min_func is exhausted
LoopExhausted_onepl ==
  /\ alg = "onepl_full"
  /\ pc = "for"
  /\ ~LoopContinues
  /\ pc' = "cost"
  /\ UNCHANGED <<inputVars, dataVars, paramVars, snapVars, callVars, passVars,
                 endVars, iteration, item_ndx, new_betas, partial_int, calls, rebuilds, quad, passes>>

\* partial_int = _compute_partial_integral(theta, difficulty, discrimination,
\*                                         the_sign); partial_int *= distribution
Rebuild_onepl ==
  /\ alg = "onepl_full"
  /\ pc = "rebuild"
  /\ partial_int' = Times(ProductOf({ CurrentFactor(i) : i \in Items }), PriorFactor)
  /\ item_ndx' = 0
  /\ rebuilds' = rebuilds + 1
  /\ pc' = "remove"
  /\ UNCHANGED <<inputVars, dataVars, paramVars, snapVars, callVars, passVars,
                 endVars, iteration, new_betas, calls, quad, passes>>

\* partial_int /= local_int
Remove_onepl ==
  /\ alg = "onepl_full"
  /\ pc = "remove"
  /\ partial_int' = Over(partial_int,
                         ComputePartialIntegral(difficulty, discrimination, item_ndx))
  /\ trials' = 0
  /\ best' = NoPoint
  /\ last_trial' = NoPoint
  /\ pc' = "optimize"
  /\ UNCHANGED <<inputVars, dataVars, paramVars, snapVars, passVars, endVars,
                 iteration, item_ndx, new_betas, calls, rebuilds, quad, passes>>

\* min_local_func(beta_estimate): difficulty[item_ndx] = beta_estimate
Trial_onepl_full(beta_estimate) ==
  /\ alg = "onepl_full"
  /\ pc = "optimize"
  /\ trials < MaxTrials
  /\ beta_estimate \in BetaCandidates
  /\ difficulty' = [difficulty EXCEPT ![item_ndx] = beta_estimate]
  /\ trials' = trials + 1
  /\ LET p == [a |-> discrimination[item_ndx], b |-> <<beta_estimate>>]
     IN  /\ last_trial' = p
         /\ best' \in (IF trials = 0 THEN {p} ELSE {best, p})
  /\ quad' = ObjectiveQuadCalls(alg)
  /\ UNCHANGED <<inputVars, dataVars, snapVars, passVars, endVars, pc, iteration,
                 item_ndx, partial_int, calls, rebuilds, passes, discrimination, betas,
                 betas_roll, origin, new_betas>>

\* fminbound(min_local_func, -4, 4) returns; its value is dropped
OptimizerReturns_onepl ==
  /\ alg = "onepl_full"
  /\ pc = "optimize"
  /\ trials >= 1
  /\ pc' = "reinsert"
  /\ UNCHANGED <<inputVars, dataVars, paramVars, snapVars, callVars, passVars,
                 endVars, iteration, item_ndx, new_betas, partial_int, calls, rebuilds, quad, passes>>

\* partial_int *= estimate_int
Reinsert_onepl ==
  /\ alg = "onepl_full"
  /\ pc = "reinsert"
  /\ partial_int' = Times(partial_int,
                          ComputePartialIntegral(difficulty, discrimination, item_ndx))
  /\ pass_result' = [pass_result EXCEPT ![item_ndx] = Params(item_ndx)]
  /\ processed' = Append(processed, item_ndx)
  /\ trials' = 0
  /\ best' = NoPoint
  /\ last_trial' = NoPoint
  /\ IF item_ndx + 1 < NItems
     THEN item_ndx' = item_ndx + 1 /\ pc' = "remove"
     ELSE item_ndx' = item_ndx /\ pc' = "check"
  /\ UNCHANGED <<inputVars, dataVars, paramVars, snapVars, endVars,
                 pass_start, iteration, new_betas, calls, rebuilds, quad, passes>>

\* if(np.abs(previous_difficulty - difficulty).max() < 1e-3): break
Check_onepl ==
  /\ alg = "onepl_full"
  /\ pc = "check"
  /\ passes' = passes + 1
  /\ IF SetMax({ Abs(previous_difficulty[i] - difficulty[i]) : i \in Items }) < Tol
     THEN pc' = "cost" /\ iteration' = iteration
     ELSE pc' = "for" /\ iteration' = iteration + 1
  /\ UNCHANGED <<inputVars, dataVars, paramVars, snapVars, callVars, passVars,
                 endVars, item_ndx, new_betas, partial_int, calls, rebuilds, quad>>

\* cost = integrate.fixed_quad(lambda x: partial_int, ...); return ...
\* The value goes to the outer search, or is dropped by the Rasch solver.
Cost ==
  /\ alg = "onepl_full"
  /\ pc = "cost"
  /\ quad' = ObjectiveQuadCalls(alg)
  /\ produced' = (discrimination[0] :> difficulty) @@ produced
  /\ IF supplied # 0
     THEN pc' = "return" /\ best_alpha' = best_alpha
     ELSE /\ pc' = "outer"
          /\ best_alpha' \in (IF calls = 1 THEN {discrimination[0]}
                              ELSE {best_alpha, discrimination[0]})
  /\ UNCHANGED <<alg, max_iteration, item_counts, alpha, supplied, options, theta,
                 dataVars, paramVars, snapVars, callVars, passVars, endVars,
                 iteration, item_ndx, new_betas, partial_int, calls, rebuilds,
                 passes>>

\* alpha = fminbound(alpha_min_func, 0.1, 4)
OnePlSolverReturns ==
  /\ alg \in OnePl
  /\ pc = "outer"
  /\ alpha' = best_alpha
  /\ pc' = "return"
  /\ UNCHANGED <<alg, max_iteration, item_counts, best_alpha, supplied, options,
                 theta, produced, dataVars,
                 paramVars, snapVars, callVars, passVars, endVars, iteration,
                 item_ndx, new_betas, partial_int, calls, rebuilds, quad, passes>>

\* return alpha, difficulty
Return_onepl ==
  /\ alg \in OnePl
  /\ pc = "return"
  /\ result' = <<alpha, difficulty>>
  /\ pc' = "done"
  /\ UNCHANGED <<inputVars, dataVars, paramVars, snapVars, callVars, passVars,
                 result_origin, exit_by, iteration, item_ndx, new_betas,
                 partial_int, calls, rebuilds, quad, passes>>

\* ------------------------------------------------------------- onepl_mml
\* fminbound(min_func, 0.25, 10)
AlphaBounds_mml == <<2500, 100000>>

\* Values onepl_mml's search over the discrimination is tried on
AlphaCandidates_mml ==
  { a \in {5000, 20000, 110000} : AlphaBounds_mml[1] <= a /\ a <= AlphaBounds_mml[2] }

\* Values fminbound(min_zero_local, -6, 6) of _mml_abstract returns
BetaCandidates_mml ==
  { b \in {5, -60000, 70000} :
      Bounds("twopl_mml").b[1] <= b /\ b <= Bounds("twopl_mml").b[2] }

\* onepl_mml.min_func(estimate), called by fminbound or once by the Rasch method:
\*   discrimination[:] = estimate
\*   _mml_abstract(difficulty, scalar, discrimination, theta, distribution)
\*   partial_int = _compute_partial_integral(...); partial_int *= distribution
\*   otpt = integrate.fixed_quad(lambda x: partial_int, -5, 5, n=61)[0]
\* _mml_abstract leaves in difficulty[item_ndx] what its search returned.
MinFunc_onepl_mml(estimate, found) ==
  /\ alg = "onepl_mml"
  /\ \/ pc = "start" /\ alpha # 0 /\ estimate = alpha
     \/ pc = "start" /\ alpha = 0 /\ estimate \in AlphaCandidates_mml
     \/ pc = "outer" /\ calls < MaxTrials
                     /\ estimate \in AlphaCandidates_mml \ DOMAIN produced
  /\ found \in [Items -> BetaCandidates_mml]
  /\ discrimination' = SharedDiscrimination(estimate)
  /\ difficulty' = found
  /\ partial_int' = Times(ProductOf({ ComputePartialIntegral(found, discrimination', i) :
                                        i \in Items }), PriorFactor)
  /\ quad' = ObjectiveQuadCalls(alg)
  /\ calls' = calls + 1
  /\ produced' = (estimate :> found) @@ produced
  /\ IF supplied # 0
     THEN pc' = "return" /\ best_alpha' = best_alpha
     ELSE /\ pc' = "outer"
          /\ best_alpha' \in (IF calls = 0 THEN {estimate} ELSE {best_alpha, estimate})
  /\ UNCHANGED <<alg, max_iteration, item_counts, alpha, supplied, options, theta,
                 dataVars, betas, betas_roll, origin, snapVars, callVars, passVars,
                 endVars, iteration, item_ndx, new_betas, rebuilds, passes>>

Next_onepl ==
  \/ \E a \in AlphaCandidates_mml \cup SuppliedAlphas :
       \E found \in [Items -> BetaCandidates_mml] : MinFunc_onepl_mml(a, found)
  \/ RaschSolver
  \/ \E a \in AlphaCandidates : OnePlSolverTrial(a)
  \/ BeginIteration_onepl
  \/ LoopExhausted_onepl
  \/ Rebuild_onepl
  \/ Remove_onepl
  \/ \E b \in BetaCandidates : Trial_onepl_full(b)
  \/ OptimizerReturns_onepl
  \/ Reinsert_onepl
  \/ Check_onepl
  \/ Cost
  \/ OnePlSolverReturns
  \/ Return_onepl

SpecOnepl == Init_onepl /\ [][Next_onepl]_vars

\* The six estimators that integrate pre-evaluated arrays, together
Next_mml ==
  \/ alg \in Estimators /\ Next
  \/ alg \in OnePl /\ Next_onepl

SpecMml == (Init \/ Init_onepl) /\ [][Next_mml]_vars

\* ================================================== response conditioning
Participants == 0 .. (NParticipants - 1)

\* Column p of an items x participants matrix, as a sequence over the items
Column(d, p) == [i \in 1 .. NItems |-> d[i - 1][p]]

\* Lexicographic order of columns, the first item's row first
RECURSIVE ColumnLess(_, _, _)
ColumnLess(c1, c2, i) ==
  IF i > NItems THEN FALSE
  ELSE IF c1[i] # c2[i] THEN c1[i] < c2[i]
  ELSE ColumnLess(c1, c2, i + 1)

\* The columns of the participants in S, sorted (np.unique sorts first)
RECURSIVE SortedColumns(_, _)
SortedColumns(d, S) ==
  IF S = {} THEN <<>>
  ELSE LET p == CHOOSE q \in S :
                  \A r \in S : ~ColumnLess(Column(d, r), Column(d, q), 1)
       IN  <<Column(d, p)>> \o SortedColumns(d, S \ {p})

\* A mask that compares the first item's row only
RunStarts_FirstRow(aux) ==
  { x \in 1 .. Len(aux) : x = 1 \/ aux[x][1] # aux[x - 1][1] }

\* mask: the positions of the sorted columns that differ from their predecessor
RunStarts(aux) == { x \in 1 .. Len(aux) : x = 1 \/ aux[x] # aux[x - 1] }

\* The x-th smallest element of a set of numbers, x from 0
RECURSIVE Nth(_, _)
Nth(S, x) ==
  LET m == CHOOSE y \in S : \A z \in S : y <= z
  IN  IF x = 0 THEN m ELSE Nth(S \ {m}, x - 1)

\* np.unique(dataset, axis=1, return_counts=True): the sorted columns at the
\* mask, and the distances between consecutive mask positions
Unique(d) ==
  LET aux    == SortedColumns(d, Participants)
      starts == RunStarts(aux)
      n      == Cardinality(starts)
      idx    == [u \in 0 .. n |-> IF u = n THEN Len(aux) + 1 ELSE Nth(starts, u)]
  IN  [sets   |-> [i \in Items |-> [u \in 0 .. (n - 1) |-> aux[idx[u]][i + 1]]],
       counts |-> [u \in 0 .. (n - 1) |-> idx[u + 1] - idx[u]]]

\* The sign with the two outcomes exchanged
KernelSign_Flipped(x) == 2 * x - 1

\* (-1)**x for a response x that is True (1) or False (0)
KernelSign(x) == (-1) ^ x

Init_cond ==
  /\ alg = "twopl_separate"
  /\ pc = "unique"
  /\ dataset \in [Items -> [Participants -> {0, 1}]]
  /\ unique_sets = <<>>
  /\ counts = <<>>
  /\ the_sign = <<>>
  /\ max_iteration = 1
  /\ item_counts = <<>>
  /\ InitArrays(alg, item_counts)
  /\ InitRest
  /\ alpha = 0
  /\ best_alpha = 0
  /\ produced = <<>>
  /\ InitGrid(alg)
  /\ supplied = 0
  /\ calls = 0

condRest == <<max_iteration, item_counts, alpha, best_alpha, supplied, options,
              theta, produced, paramVars,
              snapVars, callVars, passVars, endVars, iteration, item_ndx,
              new_betas, partial_int, calls, rebuilds, quad, passes>>

\* unique_sets, counts = np.unique(dataset, axis=1, return_counts=True)
UniqueSets ==
  /\ pc = "unique"
  /\ unique_sets' = Unique(dataset).sets
  /\ counts' = Unique(dataset).counts
  /\ pc' = "sign"
  /\ UNCHANGED <<alg, dataset, the_sign, condRest>>

\* the_sign = (-1)**unique_sets
TheSign ==
  /\ pc = "sign"
  /\ the_sign' = [i \in Items |->
                    [u \in DOMAIN unique_sets[i] |-> KernelSign(unique_sets[i][u])]]
  /\ pc' = "conditioned"
  /\ UNCHANGED <<alg, dataset, unique_sets, counts, condRest>>

Next_cond == UniqueSets \/ TheSign

SpecCond == Init_cond /\ [][Next_cond]_vars

\* ================================================= onepl_separate, twopl_separate
Separate == {"onepl_separate", "twopl_separate"}

\* twopl_separate: fminbound(min_func_local, 0.25, 6, xtol=1e-3) for the
\* discrimination, brentq(min_zero_local, -6, 6) of rasch_separate for the difficulty
Bounds_separate == [a |-> <<2500, 60000>>, b |-> <<-60000, 60000>>]

\* onepl_separate: fminbound(min_func, 0.25, 10)
AlphaBounds_separate == <<2500, 100000>>

\* A discrimination the bounded search tries together with the difficulty
\* rasch_separate finds for it
Candidates_separate ==
  { p \in { [a |-> s.a, b |-> <<s.b>>] : s \in SamplePoints } :
      InBox(Bounds_separate, p) }

AlphaCandidates_separate ==
  { a \in {5000, 20000, 110000} :
      AlphaBounds_separate[1] <= a /\ a <= AlphaBounds_separate[2] }

\* Difficulty vectors rasch_separate and rasch_approx return
Difficulties_separate ==
  [Items -> { b \in {0, 5, 70000} :
                Bounds_separate.b[1] <= b /\ b <= Bounds_separate.b[2] }]

\* Variables the separable estimators do not have
sepFixed == <<max_iteration, item_counts, alpha, supplied, options, theta, quad,
              dataVars, betas, betas_roll, origin, previous_betas,
              previous_betas_roll, new_betas, passVars, result_origin, rebuilds>>

\* twopl_separate: initial_guess = np.ones(...); difficulties = rasch_approx(dataset)
\* onepl_separate: nothing but the conditioning before the search
Init_separate ==
  /\ alg \in Separate
  /\ max_iteration \in {1, MaxIteration}
  /\ item_counts = <<>>
  /\ discrimination = [i \in Items |-> 10000]
  /\ difficulty \in (IF alg = "twopl_separate" THEN Difficulties_separate
                     ELSE {[i \in Items |-> 0]})
  /\ betas = <<>>
  /\ betas_roll = <<>>
  /\ origin = <<>>
  /\ partial_int = Ones
  /\ InitRest
  /\ pc = IF alg = "twopl_separate" THEN "for" ELSE "start"
  /\ alpha = 0
  /\ best_alpha = 0
  /\ produced = <<>>
  /\ InitGrid(alg)
  /\ supplied = 0
  /\ calls = 0
  /\ NoData

\* for iteration in range(max_iter):
\*     previous_guess = initial_guess.copy()
\*     previous_difficulty = difficulties.copy()
BeginIteration_separate ==
  /\ alg = "twopl_separate"
  /\ pc = "for"
  /\ LoopContinues
  /\ previous_discrimination' = discrimination
  /\ previous_difficulty' = difficulty
  /\ pc' = "rebuild"
  /\ UNCHANGED <<alg, sepFixed, iteration, item_ndx, discrimination, difficulty,
                 partial_int, callVars, result, exit_by, best_alpha, calls, passes,
                 produced>>

LoopExhausted_separate ==
  /\ alg = "twopl_separate"
  /\ pc = "for"
  /\ ~LoopContinues
  /\ exit_by' = "cap"
  /\ pc' = "return"
  /\ UNCHANGED <<alg, sepFixed, iteration, item_ndx, discrimination, difficulty,
                 previous_discrimination, previous_difficulty, partial_int,
                 callVars, result, best_alpha, calls, passes, produced>>

\* partial_int = _compute_partial_integral(theta, difficulties, initial_guess,
\*                                         the_sign)
\* and nothing else: no distribution is multiplied in.
Rebuild_separate ==
  /\ alg = "twopl_separate"
  /\ pc = "rebuild"
  /\ partial_int' = ProductOf({ ComputePartialIntegral(difficulty, discrimination, i) :
                                  i \in Items })
  /\ item_ndx' = 0
  /\ trials' = 0
  /\ best' = NoPoint
  /\ last_trial' = NoPoint
  /\ pc' = "optimize"
  /\ UNCHANGED <<alg, sepFixed, iteration, discrimination, difficulty,
                 previous_discrimination, previous_difficulty, result, exit_by,
                 best_alpha, calls, passes, produced>>

\* quadrature_function(theta, discrimination, old_discrimination, difficulty,
\*                     old_difficulty, partial_int, the_sign):
\*   partial_int * (1 + np.exp(kernel2)) / (1 + np.exp(kernel1))
\* the item's old contribution divided out and its new one multiplied in
QuadratureFunction(P, k, new, old) ==
  Times(Over(P, [item |-> k, key |-> <<old.a, old.b[1]>>]),
        [item |-> k, key |-> <<new.a, new.b[1]>>])

\* min_func_local(estimate): min_func with new_difficulty = rasch_separate(...)
\* and fixed_quad(quadrature_function, -5, 5, ...); it writes no array
Trial_separate(p) ==
  /\ alg = "twopl_separate"
  /\ pc = "optimize"
  /\ trials < MaxTrials
  /\ p \in Candidates_separate
  /\ trials' = trials + 1
  /\ last_trial' = p
  /\ best' \in (IF trials = 0 THEN {p} ELSE {best, p})
  /\ UNCHANGED <<alg, sepFixed, pc, iteration, item_ndx, discrimination, difficulty,
                 previous_discrimination, previous_difficulty, partial_int, result,
                 exit_by, best_alpha, calls, passes, produced>>

\* initial_guess[ndx] = fminbound(min_func_local, 0.25, 6, xtol=1e-3)
\* difficulties[ndx] = rasch_separate(dataset[ndx].reshape(1, -1), initial_guess[ndx])
\* partial_int = quadrature_function(theta, initial_guess[ndx], previous_guess[ndx],
\*                  difficulties[ndx], previous_difficulty[ndx], partial_int, ...)
Update_separate ==
  /\ alg = "twopl_separate"
  /\ pc = "optimize"
  /\ trials >= 1
  /\ discrimination' = [discrimination EXCEPT ![item_ndx] = best.a]
  /\ difficulty' = [difficulty EXCEPT ![item_ndx] = best.b[1]]
  /\ partial_int' =
       QuadratureFunction(partial_int, item_ndx, best,
                          [a |-> previous_discrimination[item_ndx],
                           b |-> <<previous_difficulty[item_ndx]>>])
  /\ trials' = 0
  /\ best' = NoPoint
  /\ last_trial' = NoPoint
  /\ IF item_ndx + 1 < NItems
     THEN item_ndx' = item_ndx + 1 /\ pc' = "optimize"
     ELSE item_ndx' = item_ndx /\ pc' = "check"
  /\ UNCHANGED <<alg, sepFixed, iteration, previous_discrimination,
                 previous_difficulty, result, exit_by, best_alpha, calls, passes,
                 produced>>

\* if np.abs(initial_guess - previous_guess).max() < 1e-3: break
Check_separate ==
  /\ alg = "twopl_separate"
  /\ pc = "check"
  /\ passes' = passes + 1
  /\ IF ToleranceMet
     THEN pc' = "return" /\ exit_by' = "tolerance" /\ iteration' = iteration
     ELSE pc' = "for" /\ exit_by' = exit_by /\ iteration' = iteration + 1
  /\ UNCHANGED <<alg, sepFixed, item_ndx, discrimination, difficulty,
                 previous_discrimination, previous_difficulty, partial_int,
                 callVars, result, best_alpha, calls, produced>>

\* return initial_guess, difficulties
Return_separate ==
  /\ alg = "twopl_separate"
  /\ pc = "return"
  /\ result' = <<discrimination, difficulty>>
  /\ pc' = "done"
  /\ UNCHANGED <<alg, sepFixed, iteration, item_ndx, discrimination, difficulty,
                 previous_discrimination, previous_difficulty, partial_int,
                 callVars, exit_by, best_alpha, calls, passes, produced>>

\* onepl_separate.min_func(estimate):
\*   difficulty = rasch_separate(dataset, estimate)
\*   otpt = integrate.fixed_quad(_compute_partial_integral, -5, 5,
\*                               (difficulty, estimate, the_sign), n=61)[0]
\* partial_int holds what this call integrates; rasch_separate is a function
\* of its arguments, so a value tried again gives the same difficulties.
MinFunc_separate(estimate, found) ==
  /\ alg = "onepl_separate"
  /\ pc \in {"start", "outer"}
  /\ calls < MaxTrials
  /\ estimate \in AlphaCandidates_separate \ DOMAIN produced
  /\ found \in Difficulties_separate
  /\ discrimination' = [i \in Items |-> estimate]
  /\ difficulty' = found
  /\ partial_int' = ProductOf({ ComputePartialIntegral(found, discrimination', i) :
                                  i \in Items })
  /\ calls' = calls + 1
  /\ produced' = (estimate :> found) @@ produced
  /\ best_alpha' \in (IF calls = 0 THEN {estimate} ELSE {best_alpha, estimate})
  /\ pc' = "outer"
  /\ UNCHANGED <<alg, sepFixed, iteration, item_ndx, previous_discrimination,
                 previous_difficulty, callVars, result, exit_by, passes>>

\* discrimination = fminbound(min_func, 0.25, 10)
\* return discrimination, rasch_separate(dataset, discrimination)
Return_onepl_separate ==
  /\ alg = "onepl_separate"
  /\ pc = "outer"
  /\ result' = <<best_alpha, produced[best_alpha]>>
  /\ pc' = "done"
  /\ UNCHANGED <<alg, sepFixed, iteration, item_ndx, discrimination, difficulty,
                 previous_discrimination, previous_difficulty, partial_int,
                 callVars, exit_by, best_alpha, calls, passes, produced>>

Next_separate ==
  \/ BeginIteration_separate
  \/ LoopExhausted_separate
  \/ Rebuild_separate
  \/ \E p \in Candidates_separate : Trial_separate(p)
  \/ Update_separate
  \/ Check_separate
  \/ Return_separate
  \/ \E a \in AlphaCandidates_separate :
       \E found \in Difficulties_separate : MinFunc_separate(a, found)
  \/ Return_onepl_separate

SpecSeparate == Init_separate /\ [][Next_separate]_vars

\* ================================================================= claims
\* The largest change of an item's discrimination since the pass began
DiscriminationChange ==
  SetMax({ Abs(Params(i).a - pass_start[i].a) : i \in Items })

\* The largest change of any estimated parameter since the pass began
ParameterChange ==
  SetMax({ Abs(Params(i).a - pass_start[i].a) : i \in Items }
         \cup UNION { { Abs(Params(i).b[j] - pass_start[i].b[j]) :
                          j \in DOMAIN Params(i).b } : i \in Items })

\* C1_Step is the step part of C1.
\* C1: in twopl_full, pcm_mml, twopl_mml and grm_mml the outer loop terminates
\* (every optimizer call returning): the estimator reaches its return, it never
\* completes more than max_iteration passes over the items, a pass that changed
\* no discrimination by 1e-3 or more is followed at once by the exit, a pass that
\* did and was not the last allowed is followed by the next one, and after the
\* exit no further pass is made.
C1_Step ==
  /\ (pc = "check" /\ DiscriminationChange < Tol) => pc' = "return"
  /\ (pc = "check" /\ DiscriminationChange >= Tol) => pc' = "for"
  /\ pc \in {"return", "done"} => (pc' \in {"return", "done"} /\ passes' = passes)

C1_OuterLoopTerminates ==
  /\ <>(pc = "done")
  /\ [](passes <= max_iteration)
  /\ [][C1_Step]_vars

\* A run that stopped on the tolerance test before the cap was reached
C1_Witness ==
  /\ pc = "done"
  /\ exit_by = "tolerance"
  /\ passes >= 1
  /\ passes < max_iteration

\* C4 (as stated): when the outer loop exits through the tolerance test, the
\* largest change of any estimated parameter during the final pass,
\* discrimination and difficulty or thresholds alike, is below 1e-3.
C4_AllParametersWithinTolerance ==
  (alg \in {"twopl_full", "pcm_mml", "grm_mml"} /\ exit_by = "tolerance")
    => ParameterChange < Tol

\* C4 (amended): when the outer loop exits through the tolerance test, the
\* largest change of an item's discrimination during the final pass is below
\* 1e-3; the difficulties and thresholds are not part of the test.
C4_DiscriminationWithinTolerance ==
  (alg \in {"twopl_full", "pcm_mml", "grm_mml"} /\ exit_by = "tolerance")
    => DiscriminationChange < Tol

\* An exit through the tolerance test after a pass that moved a discrimination
C4_Witness ==
  /\ alg \in {"twopl_full", "pcm_mml", "grm_mml"}
  /\ exit_by = "tolerance"
  /\ pc = "done"
  /\ DiscriminationChange > 0

\* C6: every discrimination twopl_full returns lies in [0.25, 4] and every
\* difficulty in [-4, 4], whatever in-bounds points the optimizer tried; the
\* return value is the pair of arrays and nothing else.
C6_ReturnedWithinBounds ==
  (alg = "twopl_full" /\ pc = "done") =>
    /\ Len(result) = 2
    /\ \A i \in Items :
         /\ 2500 <= result[1][i] /\ result[1][i] <= 40000
         /\ -40000 <= result[2][i] /\ result[2][i] <= 40000

\* twopl_full returned an item on its lower discrimination and difficulty bounds
C6_Witness ==
  /\ alg = "twopl_full"
  /\ pc = "done"
  /\ \E i \in Items : result[1][i] = 2500 /\ result[2][i] = -40000

\* The factors partial_int should hold: the prior density and, for every item of
\* S, the item's contribution under the values the arrays hold now
ExpectedProduct(S) ==
  ProductOf({PriorFactor} \cup { FactorOf(j, Params(j)) : j \in S })

\* C2: the threshold array pcm_mml and grm_mml return has one row per item and
\* max(item_counts) - 1 columns; slot j of item i holds a threshold estimated for
\* item i (written by item i's initialisation or update, and the one the arrays
\* hold for that item and position) when j < item_counts[i] - 1, and NaN
\* otherwise; no slot holds a value written for another item.
C2_RaggedThresholds ==
  (alg \in Polytomous /\ pc = "done") =>
    /\ DOMAIN result[2] = Items
    /\ \A i \in Items :
         /\ DOMAIN result[2][i] = 0 .. (MaxCount(item_counts) - 2)
         /\ \A j \in 0 .. (MaxCount(item_counts) - 2) :
              IF j < item_counts[i] - 1
              THEN /\ result[2][i][j] = Params(i).b[j + 1]
                   /\ result[2][i][j] \notin {NaN, NegSentinel, PosSentinel}
                   /\ result_origin[i][j] = i
              ELSE /\ result[2][i][j] = NaN
                   /\ result_origin[i][j] = -1

\* A ragged result: an item with fewer categories than another, its unused slot
\* marked, and an item whose thresholds an update has moved
C2_Witness ==
  /\ alg \in Polytomous
  /\ pc = "done"
  /\ \E i \in Items :
       /\ item_counts[i] < MaxCount(item_counts)
       /\ result[2][i][MaxCount(item_counts) - 2] = NaN
  /\ \E i \in Items : result[2][i][0] # -10000

\* C9: in twopl_full, pcm_mml and grm_mml, in the inner loop partial_int is the
\* prior density times the product of the contributions of a known set of items
\* under the values the parameter arrays hold: all items but item_ndx from its
\* remove step to its reinsert step (also in pcm_mml and grm_mml, which divide
\* by the contribution under the snapshot), all items after the reinsert step
\* and after the rebuild.
C9_PartialIntegralIsProduct ==
  alg \in {"twopl_full", "pcm_mml", "grm_mml"} =>
    /\ pc \in {"optimize", "reinsert"} =>
         partial_int = ExpectedProduct(Items \ {item_ndx})
    /\ pc \in {"remove", "check"} => partial_int = ExpectedProduct(Items)

\* After the reinsert step of the last item of a second pass of pcm_mml that
\* moved an item whose parameters the first pass had moved already
C9_Witness ==
  /\ alg = "pcm_mml"
  /\ pc = "check"
  /\ passes >= 1
  /\ \E i \in Items : Params(i) # pass_start[i] /\ pass_start[i].a # 10000

\* C10: within a pass the items are updated once each in ascending order, and
\* while item k is optimized partial_int holds, for every j < k, j's
\* contribution under the values j's update left in this pass, and for every
\* j > k, j's contribution under the values the pass began with.
C10_GaussSeidel ==
  /\ pc \in {"optimize", "reinsert"} =>
       /\ processed = [x \in 1 .. item_ndx |-> x - 1]
       /\ partial_int =
            ProductOf({PriorFactor}
                      \cup { FactorOf(j, pass_result[j]) : j \in 0 .. (item_ndx - 1) }
                      \cup { FactorOf(j, pass_start[j]) : j \in (item_ndx + 1) .. (NItems - 1) })
  /\ pc = "check" => processed = [x \in 1 .. NItems |-> x - 1]

\* The last item is optimized in a later pass against a first item that this
\* pass has moved away from the values the pass began with
C10_Witness ==
  /\ pc = "optimize"
  /\ passes >= 1
  /\ item_ndx = NItems - 1
  /\ trials >= 1
  /\ pass_result[0] # pass_start[0]
  /\ pass_start[0].a # 10000

RECURSIVE SumCounts(_, _)
SumCounts(c, u) == IF u < 0 THEN 0 ELSE c[u] + SumCounts(c, u - 1)

\* The unique patterns that equal participant p's column
PatternsOf(p) ==
  { u \in DOMAIN counts : \A i \in Items : unique_sets[i][u] = dataset[i][p] }

\* C3: for any items x participants binary matrix the deduplication yields
\* patterns that are pairwise different, each with the number of participants
\* whose column it is as its multiplicity; the multiplicities sum to the number
\* of participants, and every participant's column equals exactly one pattern.
C3_PatternCounts ==
  pc \in {"sign", "conditioned"} =>
    /\ SumCounts(counts, Cardinality(DOMAIN counts) - 1) = NParticipants
    /\ \A p \in Participants : Cardinality(PatternsOf(p)) = 1
    /\ \A u \in DOMAIN counts :
         counts[u] = Cardinality({ p \in Participants : u \in PatternsOf(p) })
    /\ \A i \in Items : DOMAIN unique_sets[i] = DOMAIN counts

\* A matrix with a repeated column and a different one, deduplicated
C3_Witness ==
  /\ pc = "conditioned"
  /\ Cardinality(DOMAIN counts) >= 2
  /\ \E u \in DOMAIN counts : counts[u] >= 2

\* C7 (as stated): every entry of the sign array is +1 where the pattern's
\* entry is a yes (True, 1) and -1 where it is not (False, 0).
C7_SignPlusForYes ==
  pc = "conditioned" =>
    \A i \in Items : \A u \in DOMAIN counts :
      the_sign[i][u] = IF unique_sets[i][u] = 1 THEN 1 ELSE -1

\* C7 (amended): every entry of the sign array is -1 where the pattern's entry
\* is a yes (True, 1) and +1 where it is not (False, 0).
C7_SignMinusForYes ==
  pc = "conditioned" =>
    /\ \A i \in Items : DOMAIN the_sign[i] = DOMAIN counts
    /\ \A i \in Items : \A u \in DOMAIN counts :
         the_sign[i][u] = IF unique_sets[i][u] = 1 THEN -1 ELSE 1

\* Patterns with a yes and with a no, converted
C7_Witness ==
  /\ pc = "conditioned"
  /\ \E i \in Items : \E u \in DOMAIN counts : unique_sets[i][u] = 1 /\ the_sign[i][u] = -1
  /\ \E i \in Items : \E u \in DOMAIN counts : unique_sets[i][u] = 0 /\ the_sign[i][u] = 1

\* C5: when onepl_full is called with alpha supplied, no outer search over the
\* discrimination is made, alpha_min_func and with it the inner difficulty loop
\* is entered exactly once, from its first statement on every entry of the
\* discrimination array equals the supplied value (before it the array holds the
\* ones it was allocated with, which nothing reads), and the first returned
\* element is the supplied alpha.
C5_RaschHoldsAlpha ==
  (alg = "onepl_full" /\ supplied # 0) =>
    /\ alpha = supplied
    /\ pc # "outer" /\ best_alpha = 0
    /\ calls = IF pc = "start" THEN 0 ELSE 1
    /\ pc # "start" => \A i \in Items : discrimination[i] = supplied
    /\ pc = "done" => result[1] = supplied

\* A Rasch run with a discrimination other than the initial 1 that made two
\* passes, moved a difficulty and returned
C5_Witness ==
  /\ alg = "onepl_full"
  /\ supplied = 15000
  /\ pc = "done"
  /\ passes >= 2
  /\ \E i \in Items : result[2][i] # 0

\* C11: in onepl_full, twopl_full, twopl_mml and grm_mml, once the per item
\* optimizer call has returned, the item's parameters in the arrays are the
\* point the optimizer returned (its minimizer), and the contribution the
\* reinsert step multiplies back is the one under that point, whichever points
\* the optimizer evaluated and in whichever order.
C11_ArraysHoldBest ==
  (alg \in {"onepl_full", "twopl_full", "twopl_mml", "grm_mml"} /\ pc = "reinsert") =>
    /\ Params(item_ndx) = best
    /\ ReinsertFactor(item_ndx) = FactorOf(item_ndx, best)

\* C12: when onepl_full or onepl_mml is called with alpha=None, the returned
\* difficulty vector is the one the inner difficulty computation left when it
\* was run at the returned discrimination, whatever values the outer search
\* evaluated and in whatever order.
C12_ReturnedPairConsistent ==
  (alg \in OnePl /\ supplied = 0 /\ pc = "done") =>
    /\ result[1] \in DOMAIN produced
    /\ result[2] = produced[result[1]]

\* The positions of an outer iteration that come after its rebuild
AfterRebuild == {"remove", "optimize", "reinsert", "check"}

\* C13_Step is the step part of C13.
\* C13: in twopl_full, pcm_mml, twopl_mml and grm_mml a full rebuild of
\* partial_int (the prior density times every item's contribution under the
\* current arrays) is made exactly once per outer iteration: it is the first
\* thing an iteration does after its snapshot and comes before any remove step,
\* so that the rebuilds made are the passes completed plus the one of the pass
\* under way; between two rebuilds only remove and reinsert steps change
\* partial_int.
C13_Step ==
  /\ (pc = "for" /\ pc' # "for") => pc' \in {"rebuild", "return"}
  /\ (pc' = "rebuild" /\ pc # "rebuild") => pc = "for"
  /\ (pc = "rebuild" /\ pc' # "rebuild") =>
       /\ pc' = "remove" /\ item_ndx' = 0
       /\ rebuilds' = rebuilds + 1
       /\ partial_int' = ExpectedProduct(Items)
  /\ rebuilds' # rebuilds => pc = "rebuild"
  /\ partial_int' # partial_int => pc \in {"rebuild", "remove", "reinsert"}
  /\ (pc' = "remove" /\ pc # "remove") => pc \in {"rebuild", "reinsert"}

C13_RebuildOncePerIteration ==
  /\ [](alg \in Estimators =>
          rebuilds = passes + (IF pc \in AfterRebuild THEN 1 ELSE 0))
  /\ [][C13_Step]_vars

\* The second outer iteration has made its rebuild, after a first pass that
\* changed parameters, and is about to remove its first item
C13_Witness ==
  /\ alg \in Estimators
  /\ pc = "remove"
  /\ item_ndx = 0
  /\ rebuilds = 2
  /\ passes = 1
  /\ partial_int = ExpectedProduct(Items)
  /\ \E i \in Items : Params(i) # [a |-> 10000, b |-> <<0>>]

\* C14: in onepl_separate and twopl_separate the quantity integrated over the
\* latent trait to obtain each pattern's marginal probability has the prior
\* density among its factors: the prior is a factor of the partial integral
\* from the rebuild (or the objective's product) on, at every later step.
C14_PriorIsFactor ==
  (alg \in Separate /\ pc \in {"optimize", "check", "return", "outer", "done"}) =>
    BagIn(PriorFactor, partial_int.num)

\* C15: every fixed_quad call on a pre-evaluated array uses the order and the
\* bounds of the grid the array was sampled on: those of the options in
\* onepl_full, twopl_full and pcm_mml, order 61 over [-5, 5] in onepl_mml,
\* twopl_mml, grm_mml and _mml_abstract.
C15_QuadMatchesGrid ==
  \A q \in quad : q.n = theta.n /\ q.start = theta.start /\ q.stop = theta.stop

\* An objective of a full method has been evaluated under options other than
\* order 61 over [-5, 5]
C15_Witness ==
  /\ alg \in FullMethods
  /\ quad # {}
  /\ options.quadrature_n # 61
  /\ pc = "done"

\* C16_Step is the step part of C16.
\* C16: in pcm_mml the first threshold of every item is fixed at 0 for the
\* whole run: betas[i, 0] = 0 in every state, the threshold vector new_betas
\* every trial hands to the likelihood has 0 in its first position and the
\* optimizer's thresholds after it, and a step changes the thresholds or the
\* discrimination only as the update of the current item, which writes that
\* item's discrimination and its item_counts - 1 free thresholds and nothing else.
C16_Step ==
  alg = "pcm_mml" =>
    /\ (betas' # betas \/ discrimination' # discrimination) =>
         /\ pc = "optimize" /\ pc' = "reinsert"
         /\ \A i \in Items \ {item_ndx} :
              betas'[i] = betas[i] /\ discrimination'[i] = discrimination[i]
         /\ \A j \in DOMAIN betas[item_ndx] :
              (j = 0 \/ j >= item_counts[item_ndx]) =>
                betas'[item_ndx][j] = betas[item_ndx][j]
    /\ (pc = "optimize" /\ pc' = "optimize" /\ trials' = trials + 1) =>
         /\ new_betas'[0] = 0
         /\ Slice(new_betas', 1, item_counts[item_ndx]) = last_trial'.b

C16_FirstThresholdZero ==
  /\ [](alg = "pcm_mml" =>
          /\ \A i \in Items : betas[i][0] = 0
          /\ pc \in {"optimize", "reinsert"} => new_betas[0] = 0)
  /\ [][C16_Step]_vars

\* The update of an item with three categories has stored the optimizer's two
\* thresholds, different from the ones the item started with
C16_Witness ==
  /\ alg = "pcm_mml"
  /\ pc = "reinsert"
  /\ item_counts[item_ndx] = 3
  /\ trials >= 2
  /\ betas[item_ndx][0] = 0
  /\ betas[item_ndx][1] = best.b[1]
  /\ betas[item_ndx][1] # -10000
  /\ best.b[1] # 0

\* The linear indices outside item k's slice [start_indices[k], cumulative_item_counts[k])
OutsideSlice(k) ==
  { x \in DOMAIN betas : x < start_indices[k] \/ x >= cumulative_item_counts[k] }

\* C17_Step is the step part of C17.
\* C17: in grm_mml (and grm_separate, whose statements are the same) the
\* linearized threshold arrays keep their layout in every state: for each item
\* with slice [s, e), betas[s] is the lower sentinel -10000, betas_roll[e-1] the
\* upper sentinel 10000, and betas_roll[x] = betas[x+1] for s <= x < e-1; a step
\* that changes the arrays is an evaluation for the current item and changes
\* only entries inside that item's slice.
C17_Step ==
  (alg = "grm_mml" /\ (betas' # betas \/ betas_roll' # betas_roll
                        \/ discrimination' # discrimination)) =>
    /\ pc = "optimize"
    /\ \A x \in OutsideSlice(item_ndx) :
         /\ betas'[x] = betas[x]
         /\ betas_roll'[x] = betas_roll[x]
         /\ discrimination'[x] = discrimination[x]

C17_LinearLayout ==
  /\ [](alg = "grm_mml" =>
          \A i \in Items :
            LET s == start_indices[i]
                e == cumulative_item_counts[i]
            IN  /\ betas[s] = NegSentinel
                /\ betas_roll[e - 1] = PosSentinel
                /\ \A x \in s .. (e - 2) : betas_roll[x] = betas[x + 1])
  /\ [][C17_Step]_vars

\* The second item, of three categories, has been given the thresholds of a
\* trial in a second pass
C17_Witness ==
  /\ alg = "grm_mml"
  /\ pc = "reinsert"
  /\ item_ndx = NItems - 1
  /\ item_counts[item_ndx] = 3
  /\ passes >= 1
  /\ Slice(betas, start_indices[item_ndx] + 1, cumulative_item_counts[item_ndx])
       = last_trial.b
  /\ last_trial.b[1] # -10000

\* C18: in grm_mml all entries of the linearized discrimination array that
\* belong to one item's slice hold the same value in every state, so the
\* returned discrimination[start_indices] holds, for each item, the one value
\* used for all of that item's category boundaries.
C18_UniformDiscrimination ==
  alg = "grm_mml" =>
    /\ \A i \in Items :
         \A x \in start_indices[i] .. (cumulative_item_counts[i] - 1) :
           discrimination[x] = discrimination[start_indices[i]]
    /\ pc = "done" =>
         \A i \in Items :
           \A x \in start_indices[i] .. (cumulative_item_counts[i] - 1) :
             result[1][i] = discrimination[x]

\* grm_mml has returned different discriminations for two items, one of them
\* of three categories and not the start value
C18_Witness ==
  /\ alg = "grm_mml"
  /\ pc = "done"
  /\ \E i, j \in Items :
       /\ item_counts[i] = 3
       /\ result[1][i] # 10000
       /\ result[1][i] # result[1][j]

\* C19_Step is the step part of C19.
\* C19: in onepl_full the difficulty array is never reset after its allocation:
\* entering alpha_min_func overwrites every entry of the discrimination array
\* with the trial value and leaves the difficulties as the previous evaluation
\* left them; the difficulties change only by an evaluation of the per item
\* objective, in the current item's entry; and the first thing the inner loop
\* does with partial_int is to rebuild it from the two arrays, so that nothing
\* but the difficulty array reaches the next outer trial.
C19_Step ==
  alg = "onepl_full" =>
    /\ calls' = calls + 1 =>
         /\ difficulty' = difficulty
         /\ calls >= 1 => difficulty' = produced[discrimination[0]]
         /\ \A i, j \in Items : discrimination'[i] = discrimination'[j]
         /\ iteration' = 0 /\ pc' = "for"
    /\ difficulty' # difficulty =>
         /\ pc = "optimize"
         /\ \A i \in Items \ {item_ndx} : difficulty'[i] = difficulty[i]
    /\ discrimination' # discrimination => calls' = calls + 1
    /\ (pc = "rebuild" /\ pc' # "rebuild") => partial_int' = ExpectedProduct(Items)
    /\ (pc = "for" /\ pc' = "rebuild") => previous_difficulty' = difficulty

C19_DifficultyCarried == [][C19_Step]_vars

\* The outer search has entered its second evaluation of alpha_min_func, at
\* another discrimination, with difficulties the first evaluation moved from zero
C19_Witness ==
  /\ alg = "onepl_full"
  /\ supplied = 0
  /\ calls = 2
  /\ pc = "rebuild"
  /\ iteration = 0
  /\ \E i \in Items : difficulty[i] # 0
  /\ \E a \in DOMAIN produced : a # discrimination[0] /\ produced[a] = difficulty

====
